---- MODULE Spec2Model ----
(***************************************************************************)
(* The UDP forwarding transport of simple-logger-udp                       *)
(* (src/src/logger.ts, class GraylogTransport) as a state machine.         *)
(*                                                                         *)
(* Records are numbered in submission order: the k-th call of write()      *)
(* submits record k.  The completion callback stored with a queued record  *)
(* is always `() => {}` (logger.ts:268, 301) and has no effect on the      *)
(* transport, so a queue entry {log, callback} is represented by the       *)
(* record's number.                                                        *)
(*                                                                         *)
(* Node.js runs every handler to completion, so each action below is one   *)
(* whole handler: write(), close(), the socket's 'error' listener, the     *)
(* callback of client.send, the reconnect timer and the drain timer.       *)
(*                                                                         *)
(* A dgram socket binds on its first send, and the bind completes or fails *)
(* in process.nextTick: when the calls of the current turn have returned,  *)
(* before any other callback, event or timer.  Until then the socket       *)
(* queues every send and every close(): they return normally, and the      *)
(* queue is run when the bind completes (the socket's 'listening' event).  *)
(*                                                                         *)
(* A send first looks the host up, and the lookup returns after the calls  *)
(* of the current turn.  When the lookup fails the send's callback is      *)
(* called with the error, whatever has become of the socket; when it       *)
(* succeeds on a socket that has been closed meanwhile, the send is        *)
(* abandoned and its callback is never called.                             *)
(***************************************************************************)
EXTENDS Integers, Sequences, FiniteSets

\* ---- program constants ----
maxBufferSize == 100
BatchSize == 10
ReconnectDelay == 30000
DrainDelay == 100

\* ---- bounds of the model ----
Burst == 11
OutageBurst == 100
MaxFree == 1
MaxSockets == 2
MaxInflight == 1
MaxLate == 0

VARIABLES
    buffer,            \* this.buffer: the queued records, oldest first
    connected,         \* this.connected
    client,            \* this.client: 0 is null, s > 0 is the s-th socket created
    reconnectTimeout,  \* this.reconnectTimeout: "undefined", or a handle that is "live" or "dead"
    sockets,           \* sockets[s]: the s-th socket the transport created (see NewSocket)
    timers,            \* remaining delay of every live reconnect timer, oldest first
    drainTimers,       \* remaining delay of every live drain continuation, oldest first
    inflight,          \* the accepted sends whose callback is still to be called, oldest first
    nextId,            \* number of the next record submitted
    bad,               \* the submitted records JSON.stringify throws on
    wire,              \* every invocation of client.send so far, in order
    failed,            \* the record whose send callback last reported an error (0: none)
    closes,            \* how often close() has returned (2: twice or more)
    sinceFail,         \* time since the last failure, capped at ReconnectDelay
    attemptsSinceFail, \* setupConnection calls by a timer since the last failure
    last,              \* the handler that ran last
    env,               \* process.env as environment.ts reads it: GRAYLOG_ENABLED,
                       \* GRAYLOG_HOST, GRAYLOG_PORT, GRAYLOG_LOG_LEVEL ("" when unset)
    graylogTransport,  \* TRUE when the module's graylogTransport is not null
    currentConfig,     \* currentConfig of the configuration module
    call,              \* what the last call of the facade did and returned
    probes             \* the calls of testGraylogConnection that took the fallback, each
                       \* with its socket, its send callback, its timer and its promise

\* The caller's bursts: a synchronous loop of log calls submits the first
\* records, and no callback, event or timer can interleave with it (run to
\* completion).  A second loop submits MaxFree more records at any later
\* time.  Burst is the size of the opening burst under Spec, OutageBurst under
\* the specifications of an outage.
\* MaxSockets: the sockets the transport creates.  MaxInflight: a send
\* callback is called while it is among the MaxInflight oldest outstanding.
\* MaxLate: the send callbacks still outstanding when time passes.

vars == <<buffer, connected, client, reconnectTimeout, sockets, timers, drainTimers,
          inflight, nextId, bad, wire, failed, closes, sinceFail, attemptsSinceFail,
          last, env, graylogTransport, currentConfig, call, probes>>

\* the state of the module around the transport
facade == <<env, graylogTransport, currentConfig, call, probes>>

Min(a, b) == IF a < b THEN a ELSE b

Max(a, b) == IF a < b THEN b ELSE a

Range(s) == {s[i] : i \in 1..Len(s)}

\* every element of ts lowered by d, not below 0
Elapse(ts, d) == [i \in 1..Len(ts) |-> Max(0, ts[i] - d)]

\* the remaining delays of the live timers
Pending ==
    {timers[i] : i \in 1..Len(timers)}
    \cup {drainTimers[i] : i \in 1..Len(drainTimers)}
    \cup {probes[i].timer : i \in {j \in 1..Len(probes) : probes[j].timer >= 0}}

\* JavaScript's truthiness of a string
Truthy(s) == s # ""

\* The strings of decimal digits among the values GRAYLOG_PORT takes here.
Numerals == {"12201"}

\* graylogConfig.port as String() prints it: environment.ts:25 applies
\* Number() to the variable's text ("" when unset), and Number("") is 0.
PortString(e) ==
    IF e.port = "" THEN "0" ELSE IF e.port \in Numerals THEN e.port ELSE "NaN"

\* ---- write(): the queue policy, logger.ts:144-150 ----
\* (two variants with a slip: no eviction; eviction at the wrong end)
EnqueueNoEvict(buf, r) == Append(buf, r)

EnqueueEvictNewest(buf, r) ==
    IF Len(buf) < maxBufferSize
    THEN Append(buf, r)
    ELSE Append(SubSeq(buf, 1, Len(buf) - 1), r)

Enqueue(buf, r) ==
    IF Len(buf) < maxBufferSize
    THEN Append(buf, r)
    ELSE Append(Tail(buf), r)

\* ---- sendLog(): what reaches client.send, logger.ts:158-176 ----
\* Nothing when there is no client or JSON.stringify throws (caught, line 173).
SendLog(r, via, cl, badset) ==
    IF cl = 0 \/ r \in badset
    THEN <<>>
    ELSE <<[id |-> r, via |-> via]>>

\* What the try block of sendLog throws for record r, logger.ts:161-172 (""
\* when it throws nothing): JSON.stringify throws on a record it does not
\* accept, and client.send throws when the port is 0 and when the socket has
\* been closed.
Thrown(r, cl, socks, badset) ==
    IF cl = 0 THEN ""
    ELSE IF r \in badset THEN "TypeError"
    ELSE IF PortString(env) = "0" THEN "ERR_SOCKET_BAD_PORT"
    ELSE IF socks[cl].state = "closed" THEN "ERR_SOCKET_DGRAM_NOT_RUNNING"
    ELSE ""

\* What sendLog raises to its caller when its try block has thrown: nothing,
\* since `catch (error)` of line 173 takes every exception and only prints it
\* (variant with a slip: only the exception of JSON.stringify is taken)
CatchFormatOnly(thrown) == IF thrown = "TypeError" THEN "" ELSE thrown

Catch(thrown) == ""

\* (variant with a slip: the exception of JSON.stringify ends the forEach)
RECURSIVE SendAllAbort(_, _, _)
SendAllAbort(batch, cl, badset) ==
    IF batch = <<>> \/ cl = 0 \/ Head(batch) \in badset
    THEN <<>>
    ELSE <<[id |-> Head(batch), via |-> "drain"]>> \o SendAllAbort(Tail(batch), cl, badset)

\* sendLog over a batch, in the batch's order (forEach, logger.ts:129)
RECURSIVE SendAll(_, _, _)
SendAll(batch, cl, badset) ==
    IF batch = <<>>
    THEN <<>>
    ELSE SendLog(Head(batch), "drain", cl, badset) \o SendAll(Tail(batch), cl, badset)

\* ---- the socket dgram.createSocket returns, logger.ts:95 ----
\* state: "unbound" until the first send, "binding" until the bind completes,
\* then "bound", and "closed" once it has been closed.  closes: how often
\* close() was invoked on it (2: twice or more).  queued: how many sends are
\* queued while the socket is binding; they are the newest outstanding
\* sends.  closeQueued: a close() is queued too.  late: a send or a close()
\* is queued behind that close().  threw: running the queue threw
\* ERR_SOCKET_DGRAM_NOT_RUNNING, which nothing catches.  sent: the records
\* whose send this socket accepted and whose callback is outstanding.
NewSocket ==
    [state |-> "unbound", closes |-> 0, queued |-> 0,
     closeQueued |-> FALSE, late |-> FALSE, threw |-> FALSE, sent |-> {}]

\* The process runs: no socket of the transport has thrown out of the event
\* loop.  An exception nothing catches ends the process.
Alive == \A s \in 1..Len(sockets) : ~sockets[s].threw

\* The records of entries whose send was accepted by the socket: client.send
\* to port 0, and client.send on a socket that has been closed, throw before
\* the callback is taken (caught, line 173).  A socket that is binding has
\* not been closed, whatever close() was called on it.
Accepted(entries, cl, socks) ==
    IF cl # 0 /\ socks[cl].state # "closed" /\ PortString(env) # "0"
    THEN [i \in 1..Len(entries) |-> entries[i].id]
    ELSE <<>>

\* The socket after client.send accepted the records acc, logger.ts:166: the
\* first send starts the bind, and a send made before the bind completes is
\* queued.
Enqueued(sock, acc) ==
    IF sock.state = "bound"
    THEN [sock EXCEPT !.sent = @ \cup Range(acc)]
    ELSE [sock EXCEPT !.state = "binding",
                      !.queued = @ + Len(acc),
                      !.late = @ \/ sock.closeQueued,
                      !.sent = @ \cup Range(acc)]

\* the sockets after client.send of socket cl accepted the records acc
Sent(socks, cl, acc) ==
    IF acc = <<>> THEN socks ELSE [socks EXCEPT ![cl] = Enqueued(@, acc)]

\* The socket after client.close(), logger.ts:185: queued while the socket
\* is binding; otherwise the socket is closed, or, if it was closed before,
\* close() throws and the catch of line 187 swallows it.
Closed(sock) ==
    IF sock.state = "binding"
    THEN [sock EXCEPT !.closes = Min(2, @ + 1),
                      !.closeQueued = TRUE,
                      !.late = @ \/ sock.closeQueued]
    ELSE [sock EXCEPT !.closes = Min(2, @ + 1), !.state = "closed"]

\* The socket after its bind failed: dgram drops the queue before the
\* 'error' listener runs, the queued close() with it.
Unbound(sock) ==
    IF sock.state = "binding"
    THEN [sock EXCEPT !.state = "unbound", !.queued = 0, !.closeQueued = FALSE,
                      !.late = FALSE, !.sent = {}]
    ELSE sock

\* The socket after its bind completed and dgram ran the queue: the queued
\* sends are made, each starting with the lookup of the host; a queued
\* close() closes the socket before any of those lookups has returned; and a
\* send or a close() queued behind that close() throws.
Bound(sock) ==
    [sock EXCEPT !.state = IF sock.closeQueued THEN "closed" ELSE "bound",
                 !.queued = 0, !.closeQueued = FALSE, !.late = FALSE,
                 !.threw = sock.late]

\* The callback of an accepted send is outstanding until it is called or
\* the send is abandoned.
Track(acc) == inflight \o acc

\* The outstanding callbacks without those of the queue of sock, which dgram
\* drops when the bind fails: those sends are never made and their callbacks
\* never called.
Dropped(sock) == SubSeq(inflight, 1, Len(inflight) - sock.queued)

\* The records whose send is outstanding on a socket that has been closed,
\* by close() or by a queued close() when the bind completed: the socket was
\* closed before the lookup of the host returned.
Doomed ==
    UNION {sockets[s].sent : s \in {t \in 1..Len(sockets) : sockets[t].state = "closed"}}

\* the sockets once the send of record r is over
Settle(r) == [s \in 1..Len(sockets) |-> [sockets[s] EXCEPT !.sent = @ \ {r}]]

\* a socket is binding: its bind completes or fails before anything else
\* the event loop runs
Binding == \E s \in 1..Len(sockets) : sockets[s].state = "binding"

\* The steps that are calls of the logger's user, or end in the user's code.
\* A call can be made while a socket is binding only in the turn in which the
\* bind began, which is then a turn of the user: a bind that begins in a
\* timer's callback completes or fails when that callback has returned.
Calls ==
    {"init", "load", "write", "write threw", "log", "test", "test catch", "test return",
     "configure", "close"}

InTurn == Binding => last \in Calls

\* the calls of testGraylogConnection whose promise is settled and whose
\* continuation of the `await` (logger.ts:310) has not run yet
Awaiting == {i \in 1..Len(probes) : probes[i].promise \in {"rejected", "true", "false"}}

\* the outstanding callbacks that may be called next
Callable == SubSeq(inflight, 1, Min(MaxInflight, Len(inflight)))

\* ---- scheduleReconnect(), logger.ts:114-123 ----
\* (variant with a slip: the earlier timer is not cleared)
RearmKeepsOld(rt, ts) == Append(ts, ReconnectDelay)

ClearTimer(rt, ts) == IF rt = "live" THEN SubSeq(ts, 1, Len(ts) - 1) ELSE ts

Rearm(rt, ts) == Append(ClearTimer(rt, ts), ReconnectDelay)

\* (variant with a slip: this.connected is left as it was)
FailStaysConnected(rt, ts) ==
    /\ connected' = connected
    /\ timers' = Append(IF rt = "live" THEN SubSeq(ts, 1, Len(ts) - 1) ELSE ts, ReconnectDelay)
    /\ reconnectTimeout' = "live"
    /\ sinceFail' = 0
    /\ attemptsSinceFail' = 0

\* (variant with a slip: the failure is recorded but no timer is set)
FailNoTimer(rt, ts) ==
    /\ connected' = FALSE
    /\ timers' = IF rt = "live" THEN SubSeq(ts, 1, Len(ts) - 1) ELSE ts
    /\ reconnectTimeout' = IF rt = "undefined" THEN "undefined" ELSE "dead"
    /\ sinceFail' = 0
    /\ attemptsSinceFail' = 0

\* ---- a failure is handled: `this.connected = false; this.scheduleReconnect()`
\* (logger.ts:99-100, 109-110, 169-170).  rt, ts: the handle and the live
\* reconnect timers when it happens.
Fail(rt, ts) ==
    /\ connected' = FALSE
    /\ timers' = Rearm(rt, ts)
    /\ reconnectTimeout' = "live"
    /\ sinceFail' = 0
    /\ attemptsSinceFail' = 0

\* ---- processBuffer(), logger.ts:125-139 ----
\* buffer.splice(0, Math.min(10, buffer.length)): the batch taken, and what
\* stays queued (variants with a slip: the whole queue is taken; the last
\* record of the batch stays queued)
TakeAll(buf) == buf

DropBatchKeepsLast(buf, n) == SubSeq(buf, n, Len(buf))

TakeBatch(buf) == SubSeq(buf, 1, Min(BatchSize, Len(buf)))

DropBatch(buf, n) == SubSeq(buf, n + 1, Len(buf))

\* (variant with a slip: no continuation is set for what stays queued)
ProcessBufferOnce(conn, cl, socks, dts) ==
    IF Len(buffer) > 0 /\ conn /\ cl # 0
    THEN LET batch == SubSeq(buffer, 1, Min(BatchSize, Len(buffer)))
             rest == SubSeq(buffer, Len(batch) + 1, Len(buffer))
             sent == SendAll(batch, cl, bad)
         IN /\ buffer' = rest
            /\ wire' = wire \o sent
            /\ inflight' = Track(Accepted(sent, cl, socks))
            /\ sockets' = Sent(socks, cl, Accepted(sent, cl, socks))
            /\ drainTimers' = dts
    ELSE /\ buffer' = buffer
         /\ wire' = wire
         /\ inflight' = inflight
         /\ sockets' = socks
         /\ drainTimers' = dts

\* conn, cl, socks: this.connected, this.client and the sockets when it is
\* called; dts: the drain timers still live then.
ProcessBuffer(conn, cl, socks, dts) ==
    IF Len(buffer) > 0 /\ conn /\ cl # 0
    THEN LET batch == TakeBatch(buffer)
             rest == DropBatch(buffer, Len(batch))
             sent == SendAll(batch, cl, bad)
         IN /\ buffer' = rest
            /\ wire' = wire \o sent
            /\ inflight' = Track(Accepted(sent, cl, socks))
            /\ sockets' = Sent(socks, cl, Accepted(sent, cl, socks))
            /\ drainTimers' = IF Len(rest) > 0 THEN Append(dts, DrainDelay) ELSE dts
    ELSE /\ buffer' = buffer
         /\ wire' = wire
         /\ inflight' = inflight
         /\ sockets' = socks
         /\ drainTimers' = dts

\* ---- setupConnection(), logger.ts:93-112 ----
\* ok: dgram.createSocket returned; otherwise it threw.  ts: the live
\* reconnect timers and rt the handle when it is called.
SetupConnection(ok, rt, ts) ==
    IF ok
    THEN /\ client' = Len(sockets) + 1
         /\ connected' = TRUE
         /\ timers' = ts
         /\ reconnectTimeout' = rt
         /\ sinceFail' = sinceFail
         /\ attemptsSinceFail' = attemptsSinceFail + 1
         /\ ProcessBuffer(TRUE, Len(sockets) + 1, Append(sockets, NewSocket), drainTimers)
    ELSE /\ Fail(rt, ts)
         /\ UNCHANGED <<sockets, client, buffer, wire, inflight, drainTimers>>

\* ---- the state after `new GraylogTransport(host, port)`, logger.ts:87-91 ----
InitOk ==
    /\ buffer = <<>> /\ connected = TRUE /\ client = 1 /\ sockets = <<NewSocket>>
    /\ reconnectTimeout = "undefined" /\ timers = <<>> /\ drainTimers = <<>>
    /\ inflight = <<>> /\ nextId = 1 /\ bad = {} /\ wire = <<>> /\ failed = 0
    /\ closes = 0 /\ sinceFail = ReconnectDelay /\ attemptsSinceFail = 0
    /\ last = "init"

InitFailed ==
    /\ buffer = <<>> /\ connected = FALSE /\ client = 0 /\ sockets = <<>>
    /\ reconnectTimeout = "live" /\ timers = <<ReconnectDelay>> /\ drainTimers = <<>>
    /\ inflight = <<>> /\ nextId = 1 /\ bad = {} /\ wire = <<>> /\ failed = 0
    /\ closes = 0 /\ sinceFail = 0 /\ attemptsSinceFail = 0
    /\ last = "init"

\* ---- the module around the transport, logger.ts:27-34, 194-202 ----
\* The configuration module's defaults (text after index.ts:12).
defaultConfig ==
    [graylogHost |-> "localhost", graylogPort |-> "12201", graylogEnabled |-> FALSE,
     logLevel |-> "info"]

\* no call of the facade has been made
NoCall ==
    [op |-> "none", n |-> 0, level |-> "", passed |-> FALSE, console |-> "none",
     submitted |-> FALSE, record |-> <<>>, success |-> FALSE, detail |-> ""]

\* The transport on its own: the module was loaded with forwarding enabled
\* and an endpoint, and `new GraylogTransport(host, port)` has returned.
Standalone ==
    /\ env = [enabled |-> "true", host |-> "graylog", port |-> "12201", logLevel |-> ""]
    /\ graylogTransport = TRUE
    /\ currentConfig = defaultConfig
    /\ call = NoCall
    /\ probes = <<>>

Init == (InitOk \/ InitFailed) /\ Standalone

\* ---- write(log, callback), logger.ts:141-156 ----
\* ok: JSON.stringify will accept the record (it accepts every record but,
\* possibly, the last of the opening burst).  The call returns ("write")
\* unless sendLog raises an exception to it ("write threw").
WriteTo(burst, ok) ==
    /\ Alive
    /\ InTurn
    /\ nextId <= burst + MaxFree
    /\ ok \/ nextId = burst
    /\ nextId' = nextId + 1
    /\ bad' = IF ok THEN bad ELSE bad \cup {nextId}
    /\ IF ~connected \/ client = 0
       THEN /\ buffer' = Enqueue(buffer, nextId)
            /\ last' = "write"
            /\ UNCHANGED <<wire, inflight, sockets>>
       ELSE LET sent == SendLog(nextId, "write", client, bad')
            IN /\ last' = IF Catch(Thrown(nextId, client, sockets, bad')) = ""
                          THEN "write" ELSE "write threw"
               /\ wire' = wire \o sent
               /\ inflight' = Track(Accepted(sent, client, sockets))
               /\ sockets' = Sent(sockets, client, Accepted(sent, client, sockets))
               /\ buffer' = buffer
    /\ UNCHANGED <<connected, client, reconnectTimeout, timers, drainTimers,
                   failed, closes, sinceFail, attemptsSinceFail>>

Write(ok) == WriteTo(Burst, ok) /\ UNCHANGED facade

OutageWrite(ok) == WriteTo(OutageBurst, ok) /\ UNCHANGED facade

\* ---- the 'error' listener of socket s, logger.ts:97-101 ----
\* A socket emits 'error' when its bind fails and, once bound, when the
\* network reports an error to it.
SocketError(s) ==
    /\ Alive
    /\ s \in 1..Len(sockets)
    /\ sockets[s].state \in {"binding", "bound"}
    /\ Binding => sockets[s].state = "binding"
    /\ sockets' = [sockets EXCEPT ![s] = Unbound(@)]
    /\ inflight' = IF sockets[s].state = "binding" THEN Dropped(sockets[s]) ELSE inflight
    /\ Fail(reconnectTimeout, timers)
    /\ last' = "error"
    /\ UNCHANGED <<buffer, client, drainTimers, nextId, bad, wire, failed, closes>>
    /\ UNCHANGED facade

\* ---- the bind of socket s completes: its 'listening' event ----
\* The callbacks of the queued sends stay outstanding.
BindComplete(s) ==
    /\ Alive
    /\ s \in 1..Len(sockets)
    /\ sockets[s].state = "binding"
    /\ sockets' = [sockets EXCEPT ![s] = Bound(@)]
    /\ last' = "listening"
    /\ UNCHANGED <<buffer, connected, client, reconnectTimeout, timers, drainTimers,
                   inflight, nextId, bad, wire, failed, closes, sinceFail,
                   attemptsSinceFail>>
    /\ UNCHANGED facade

\* ---- the callback of client.send for record r, logger.ts:166-172 ----
\* err: it is called with an error.  A send whose socket was closed while it
\* was outstanding only has its callback called when its lookup failed.
SendCallback(r, err) ==
    /\ Alive
    /\ ~Binding
    /\ r \in Range(Callable)
    /\ r \in Doomed => err
    /\ inflight' = SelectSeq(inflight, LAMBDA x : x # r)
    /\ sockets' = Settle(r)
    /\ IF err
       THEN /\ Fail(reconnectTimeout, timers)
            /\ failed' = r
       ELSE UNCHANGED <<connected, timers, reconnectTimeout, failed, sinceFail,
                        attemptsSinceFail>>
    /\ last' = "callback"
    /\ UNCHANGED <<buffer, client, drainTimers, nextId, bad, wire, closes>>
    /\ UNCHANGED facade

\* ---- the send of record r is abandoned ----
\* Its lookup succeeded after the socket had been closed: dgram finds no
\* socket to send on and returns, and the callback given to
\* client.send (logger.ts:166) is never called.
SendAbandoned(r) ==
    /\ Alive
    /\ ~Binding
    /\ r \in Range(Callable)
    /\ r \in Doomed
    /\ inflight' = SelectSeq(inflight, LAMBDA x : x # r)
    /\ sockets' = Settle(r)
    /\ last' = "abandoned"
    /\ UNCHANGED <<buffer, connected, client, reconnectTimeout, timers, drainTimers,
                   nextId, bad, wire, failed, closes, sinceFail, attemptsSinceFail>>
    /\ UNCHANGED facade

\* ---- the reconnect timer fires, logger.ts:119-122 ----
\* Timers of one delay fire in the order they were set: the oldest is first.
ReconnectFire(ok) ==
    /\ Alive
    /\ ~Binding
    /\ Len(timers) > 0
    /\ Head(timers) = 0
    /\ ok => Len(sockets) < MaxSockets
    /\ SetupConnection(ok,
                       IF Len(timers) = 1 /\ reconnectTimeout = "live"
                       THEN "dead" ELSE reconnectTimeout,
                       Tail(timers))
    /\ last' = "reconnect"
    /\ UNCHANGED <<nextId, bad, failed, closes>>
    /\ UNCHANGED facade

\* ---- the drain continuation fires, logger.ts:136 ----
DrainFire ==
    /\ Alive
    /\ ~Binding
    /\ Len(drainTimers) > 0
    /\ Head(drainTimers) = 0
    /\ ProcessBuffer(connected, client, sockets, Tail(drainTimers))
    /\ last' = "drain"
    /\ UNCHANGED <<connected, client, reconnectTimeout, timers, nextId, bad,
                   failed, closes, sinceFail, attemptsSinceFail>>
    /\ UNCHANGED facade

\* ---- close(), logger.ts:178-190 ----
Close ==
    /\ Alive
    /\ InTurn
    /\ closes' = Min(2, closes + 1)
    /\ last' = "close"
    /\ timers' = ClearTimer(reconnectTimeout, timers)
    /\ reconnectTimeout' = IF reconnectTimeout = "undefined" THEN "undefined" ELSE "dead"
    /\ sockets' = IF client # 0 THEN [sockets EXCEPT ![client] = Closed(@)] ELSE sockets
    /\ UNCHANGED <<buffer, connected, client, drainTimers, inflight, nextId, bad, wire,
                   failed, sinceFail, attemptsSinceFail>>
    /\ UNCHANGED facade

\* ---- time passes until the next timer is due ----
\* A timer that is due fires before the clock moves on: what can come before
\* it are other handlers, at the same instant.  At most MaxLate send callbacks
\* are still outstanding when the clock moves on.
Advance ==
    /\ Alive
    /\ ~Binding
    /\ Pending # {}
    /\ \A t \in Pending : t > 0
    /\ Len(inflight) <= MaxLate
    /\ LET d == CHOOSE t \in Pending : \A u \in Pending : t <= u
       IN /\ timers' = Elapse(timers, d)
          /\ drainTimers' = Elapse(drainTimers, d)
          /\ probes' = [i \in 1..Len(probes) |->
                           [probes[i] EXCEPT !.timer = IF @ < 0 THEN @ ELSE Max(0, @ - d)]]
          /\ sinceFail' = Min(ReconnectDelay, sinceFail + d)
    /\ last' = "advance"
    /\ UNCHANGED <<buffer, connected, client, reconnectTimeout, sockets, inflight, nextId,
                   bad, wire, failed, closes, attemptsSinceFail>>
    /\ UNCHANGED <<env, graylogTransport, currentConfig, call>>

\* The event loop takes over once the opening burst has run, and again once
\* the second burst, if it has begun, has run.
Loop(burst) == nextId > burst /\ (nextId = burst + 1 \/ nextId > burst + MaxFree)

Next ==
    \/ \E ok \in BOOLEAN : Write(ok)
    \/ Loop(Burst) /\ \E s \in 1..Len(sockets) : SocketError(s)
    \/ Loop(Burst) /\ \E s \in 1..Len(sockets) : BindComplete(s)
    \/ Loop(Burst) /\ \E r \in Range(Callable), err \in BOOLEAN : SendCallback(r, err)
    \/ Loop(Burst) /\ \E r \in Range(Callable) : SendAbandoned(r)
    \/ Loop(Burst) /\ \E ok \in BOOLEAN : ReconnectFire(ok)
    \/ Loop(Burst) /\ DrainFire
    \/ Loop(Burst) /\ Close
    \/ Loop(Burst) /\ Advance

Spec == Init /\ [][Next]_vars

\* The same transport under the scheduling Node.js guarantees: a loop of
\* calls that has begun runs to its end, a bind that does not fail completes,
\* a send ends with its callback called or with the send abandoned, a timer
\* that is due fires unless it is cleared first, and time passes while timers
\* are pending.  Nothing is assumed of close(), of the socket's errors or of
\* the outcome of a send.
SpecScheduled ==
    /\ Init
    /\ [][Next]_vars
    /\ WF_vars(~Loop(Burst) /\ \E ok \in BOOLEAN : Write(ok))
    /\ WF_vars(Loop(Burst) /\ \E s \in 1..Len(sockets) : BindComplete(s))
    /\ WF_vars(Loop(Burst) /\ \E r \in Range(Callable) :
                                  (\E err \in BOOLEAN : SendCallback(r, err)) \/ SendAbandoned(r))
    /\ WF_vars(Loop(Burst) /\ \E ok \in BOOLEAN : ReconnectFire(ok))
    /\ WF_vars(Loop(Burst) /\ DrainFire)
    /\ WF_vars(Loop(Burst) /\ Advance)

\* A long outage and the recovery from it: the opening burst submits every
\* record, which fills the queue of a transport that is not connected beyond
\* its capacity, and the events of Next follow it.
OutageLoop == Loop(OutageBurst + MaxFree)

NextOutage ==
    \/ \E ok \in BOOLEAN : OutageWrite(ok)
    \/ OutageLoop /\ \E s \in 1..Len(sockets) : SocketError(s)
    \/ OutageLoop /\ \E s \in 1..Len(sockets) : BindComplete(s)
    \/ OutageLoop /\ \E r \in Range(Callable), err \in BOOLEAN : SendCallback(r, err)
    \/ OutageLoop /\ \E r \in Range(Callable) : SendAbandoned(r)
    \/ OutageLoop /\ \E ok \in BOOLEAN : ReconnectFire(ok)
    \/ OutageLoop /\ DrainFire
    \/ OutageLoop /\ Close
    \/ OutageLoop /\ Advance

SpecOutage == Init /\ [][NextOutage]_vars

\* A transport that has never been connected: createSocket threw in the
\* constructor and throws in every reconnect timer.  No socket exists, so
\* there is no socket event and no send callback; records are submitted at
\* any time.
NextUnconnected ==
    \/ \E ok \in BOOLEAN : OutageWrite(ok)
    \/ ReconnectFire(FALSE)
    \/ Close
    \/ Advance

InitUnconnected == InitFailed /\ Standalone

SpecUnconnected == InitUnconnected /\ [][NextUnconnected]_vars

\* A transport that, once connected, stays connected: no socket reports an
\* error, no bind and no send fails and close() is not called.  It is
\* connected from its construction, or by a reconnect timer after
\* createSocket threw and the opening burst filled the queue.  The scheduling
\* is the one Node.js guarantees: a bind that does not fail completes, the
\* callback of an accepted send is called, a timer that is due fires, and
\* time passes while timers are pending.
NextUndisturbed ==
    \/ \E ok \in BOOLEAN : OutageWrite(ok)
    \/ OutageLoop /\ \E s \in 1..Len(sockets) : BindComplete(s)
    \/ OutageLoop /\ \E r \in Range(Callable) : SendCallback(r, FALSE)
    \/ OutageLoop /\ \E ok \in BOOLEAN : ReconnectFire(ok)
    \/ OutageLoop /\ DrainFire
    \/ OutageLoop /\ Advance

SpecUndisturbed ==
    /\ Init
    /\ [][NextUndisturbed]_vars
    /\ WF_vars(OutageLoop /\ \E s \in 1..Len(sockets) : BindComplete(s))
    /\ WF_vars(OutageLoop /\ \E r \in Range(Callable) : SendCallback(r, FALSE))
    /\ WF_vars(OutageLoop /\ DrainFire)
    /\ WF_vars(OutageLoop /\ Advance)

\* ======================= the facade =======================

\* ---- bounds of the facade's model ----
MaxCalls == 2

\* LOG_LEVELS, logger.ts:50-56
LOG_LEVELS == [fatal |-> 2, error |-> 3, warn |-> 4, info |-> 6, debug |-> 7]

\* the level-tagged entry points of safeLogger and of a context
EntryPoints == {"info", "error", "warn", "debug"}

\* isNaN(parseInt(String(graylogConfig.port), 10)), logger.ts:197-198, 282-284
PortIsNaN(e) == PortString(e) = "NaN"

\* `graylogConfig.enabled` as a condition (logger.ts:196, 267, 274): the text
\* of GRAYLOG_ENABLED, true of every non-empty string
Enabled(e) == Truthy(e.enabled)

\* the module creates its transport, logger.ts:196-202
HasTransport(e) == Enabled(e) /\ ~PortIsNaN(e) /\ Truthy(e.host)

\* shouldLog(logLevel), logger.ts:68-75; a comparison with undefined is false
ShouldLog(logLevel, e) ==
    LET configLogLevel == IF Truthy(e.logLevel) THEN e.logLevel ELSE "info"
    IN IF configLogLevel \in DOMAIN LOG_LEVELS
       THEN logLevel <= LOG_LEVELS[configLogLevel]
       ELSE FALSE

\* ---- formatLog(message, level), logger.ts:214-263 ----
\* A record is a function from its property names to their values.  A
\* message is [kind |-> "string", text |-> t], [kind |-> "error", text |-> the
\* Error's message], [kind |-> "object", fields |-> f] or [kind |-> "null"].

\* { ...a, ...b }
Spread(a, b) == [k \in DOMAIN a \cup DOMAIN b |-> IF k \in DOMAIN b THEN b[k] ELSE a[k]]

\* o[k], with "" standing for undefined: both are falsy
Prop(o, k) == IF k \in DOMAIN o THEN o[k] ELSE ""

\* Date.now() / 1000 and uuidv4(), logger.ts:215-216
Now == 1700000000

Uuid == "uuid"

\* os.hostname(), logger.ts:39
Hostname == "node-1"

\* defaultLogValues, logger.ts:37-47, with the GRAYLOG_* names unset
defaultLogValues ==
    [version |-> "1.1", host |-> IF Truthy(Hostname) THEN Hostname ELSE "unknown-host",
     short_message |-> "", timestamp |-> 0, _application_name |-> "default-app",
     _environment |-> "development", _product |-> "default-product",
     _service_name |-> "default-app", _service_version |-> "1.0.0"]

\* formatLog reads a property of null or undefined: TypeError
FormatThrows(message) == message.kind = "null"

FormatLog(message, level) ==
    IF message.kind = "string"
    THEN Spread(defaultLogValues,
                [short_message |-> message.text, timestamp |-> Now, level |-> level,
                 _correlation_id |-> Uuid])
    ELSE IF message.kind = "error"
    THEN Spread(defaultLogValues,
                [short_message |-> message.text, full_message |-> "stack",
                 timestamp |-> Now, level |-> LOG_LEVELS.error,
                 _error_message |-> message.text, _error_code |-> "Error",
                 _correlation_id |-> Uuid])
    ELSE LET m == message.fields
             shortMessage ==
                 IF Truthy(Prop(m, "msg")) THEN m["msg"]
                 ELSE IF Truthy(Prop(m, "message")) THEN m["message"]
                 ELSE IF Truthy(Prop(m, "short_message")) THEN m["short_message"]
                 ELSE "No Content"
             fullMessage ==
                 IF Truthy(Prop(m, "fullMessage")) THEN m["fullMessage"]
                 ELSE IF Truthy(Prop(m, "full_message")) THEN m["full_message"]
                 ELSE Prop(m, "details")
             restKeys == DOMAIN m \ {"msg", "message", "short_message", "full_message"}
             rest == [k \in restKeys |-> m[k]]
             standardLog ==
                 Spread(Spread(defaultLogValues,
                               [short_message |-> shortMessage, timestamp |-> Now,
                                level |-> level,
                                _correlation_id |->
                                    IF Truthy(Prop(m, "_correlation_id"))
                                    THEN m["_correlation_id"] ELSE Uuid]),
                        rest)
         IN IF Truthy(fullMessage)
            THEN Spread(standardLog, [full_message |-> fullMessage])
            ELSE standardLog

\* ---- an entry point of safeLogger or of a context, logger.ts:347-452 ----
\* op: "log", or "load" for the call the module makes when it is loaded.
\* L: the entry point.  ctx: <<>> for safeLogger itself, <<contextValues>>
\* for a context.  consoleOk: logger[L] (pino) returns; otherwise it throws.
\* ok: JSON.stringify will accept the record.  burst: see WriteTo.
Emit(op, L, ctx, message, consoleOk, ok, burst) ==
    LET passed == ShouldLog(LOG_LEVELS[L], env)
        formatted == passed /\ ~FormatThrows(message)
        baseLog == FormatLog(message, LOG_LEVELS[L])
        theLog == IF ctx = <<>> THEN baseLog ELSE Spread(baseLog, ctx[1])
        submits == formatted /\ consoleOk /\ graylogTransport /\ Enabled(env)
    IN /\ call' = [op |-> op, n |-> IF op = "log" THEN call.n + 1 ELSE call.n,
                   level |-> L, passed |-> passed,
                   console |-> IF ~passed THEN "none"
                               ELSE IF formatted /\ consoleOk THEN "record"
                               ELSE "fallback",
                   submitted |-> submits,
                   record |-> IF formatted THEN <<theLog>> ELSE <<>>,
                   success |-> FALSE, detail |-> ""]
       /\ IF submits
          THEN WriteTo(burst, ok)
          ELSE /\ ok
               /\ last' = "log"
               /\ UNCHANGED <<buffer, connected, client, reconnectTimeout, sockets,
                              timers, drainTimers, inflight, nextId, bad, wire, failed,
                              closes, sinceFail, attemptsSinceFail>>
       /\ UNCHANGED <<env, graylogTransport, currentConfig, probes>>

\* the messages and the context values of the facade's callers
Hello == [kind |-> "string", text |-> "hello"]

Null == [kind |-> "null"]

RequestContext == [request_id |-> "1234-5678"]

\* The module has been loaded once its last statement has run.
Loaded == call.op # "none"

\* The process runs: the module is loaded and neither a socket's queue nor a
\* timer callback has thrown.  An exception a timer callback throws is caught
\* by nothing and ends the process.
Running == Loaded /\ Alive /\ \A i \in 1..Len(probes) : ~probes[i].threw

\* A timer fires, and time passes, only when no continuation of an `await`
\* is waiting.  The callbacks that process.nextTick has queued (the end of a
\* bind, the callback of a send, a socket's 'error' event) run before the
\* continuations that are waiting.
Turn == Running /\ Awaiting = {}

\* the calls of testGraylogConnection that have not returned their result
PendingTests ==
    {i \in 1..Len(probes) : probes[i].promise \in {"pending", "rejected", "true", "false"}}

\* a further call of the facade stays within MaxCalls
CallsLeft == call.n + Cardinality(PendingTests) < MaxCalls

\* ---- the module's last statement, logger.ts:477-484 ----
Startup(consoleOk) ==
    /\ ~Loaded
    /\ IF Enabled(env)
       THEN Emit("load", "info", <<>>,
                 [kind |-> "object",
                  fields |-> [short_message |-> "loaded", host |-> env.host,
                              port |-> PortString(env)]],
                 consoleOk, TRUE, MaxCalls)
       ELSE /\ consoleOk
            /\ call' = [call EXCEPT !.op = "load"]
            /\ last' = "load"
            /\ UNCHANGED <<buffer, connected, client, reconnectTimeout, sockets, timers,
                           drainTimers, inflight, nextId, bad, wire, failed, closes,
                           sinceFail, attemptsSinceFail, env, graylogTransport,
                           currentConfig, probes>>

Log(L, ctx, message, consoleOk) ==
    /\ Running
    /\ InTurn
    /\ CallsLeft
    /\ Emit("log", L, ctx, message, consoleOk, TRUE, MaxCalls)

\* ---- testGraylogConnection(), logger.ts:273-343 ----
\* what a call of testGraylogConnection returns
TestResult(success, detail, submitted) ==
    [op |-> "test", n |-> call.n + 1, level |-> "", passed |-> FALSE, console |-> "none",
     submitted |-> submitted, record |-> <<>>, success |-> success, detail |-> detail]

\* The fallback when the executor of its promise has returned or thrown,
\* logger.ts:310-329.  created: dgram.createSocket returned (socket, open).
\* sent: client.send returned, having taken its callback; it throws on port 0.
\* The promise is "pending" when the executor returned and "rejected" when it
\* threw; it is "true" or "false" once resolve was called, and "returned" or
\* "caught" once the continuation of the `await` has run.  order: the place
\* of that continuation among those that are waiting (0: it is not waiting).
Probe(created, sent) ==
    [socket |-> created, callback |-> created /\ sent, timer |-> -1, success |-> FALSE,
     open |-> created,
     promise |-> IF created /\ sent THEN "pending" ELSE "rejected",
     order |-> IF created /\ sent THEN 0 ELSE Cardinality(Awaiting) + 1,
     threw |-> FALSE]

\* The call up to its return to the caller.  createOk: dgram.createSocket of
\* the fallback returns.  Without a fallback the function returns its result
\* before any `await`.  The fallback awaits its promise, so that the call
\* returns with no result yet, also when createSocket or client.send threw:
\* the catch of line 337 runs in a later step (TestCatch).
TestConnection(createOk) ==
    /\ Running
    /\ InTurn
    /\ CallsLeft
    /\ LET viaTransport == Enabled(env) /\ ~PortIsNaN(env) /\ graylogTransport
           fallback == Enabled(env) /\ ~PortIsNaN(env) /\ ~graylogTransport
           sent == PortString(env) # "0"
       IN /\ fallback \/ createOk
          /\ call' = IF ~Enabled(env) THEN TestResult(FALSE, "disabled", FALSE)
                     ELSE IF PortIsNaN(env) THEN TestResult(FALSE, "invalid port", FALSE)
                     ELSE IF graylogTransport THEN TestResult(TRUE, "sent", TRUE)
                     ELSE call
          /\ probes' = IF fallback THEN Append(probes, Probe(createOk, sent)) ELSE probes
          /\ IF viaTransport
             THEN WriteTo(MaxCalls, TRUE)
             ELSE /\ last' = "test"
                  /\ UNCHANGED <<buffer, connected, client, reconnectTimeout, sockets,
                                 timers, drainTimers, inflight, nextId, bad, wire,
                                 failed, closes, sinceFail, attemptsSinceFail>>
    /\ UNCHANGED <<env, graylogTransport, currentConfig>>

\* The continuations run in the order in which their promises were settled.
\* The probes once the continuation of call i has run, its promise then `to`.
Continued(i, to) ==
    [j \in 1..Len(probes) |->
        IF j = i
        THEN [probes[j] EXCEPT !.promise = to, !.order = 0]
        ELSE [probes[j] EXCEPT !.order = Max(0, @ - 1)]]

\* ---- the catch of testGraylogConnection, logger.ts:337-342 ----
\* The continuation of the `await` of a promise whose executor threw.
TestCatch(i) ==
    /\ Running
    /\ i \in 1..Len(probes)
    /\ probes[i].promise = "rejected"
    /\ probes[i].order = 1
    /\ probes' = Continued(i, "caught")
    /\ call' = TestResult(FALSE, "error", FALSE)
    /\ last' = "test catch"
    /\ UNCHANGED <<buffer, connected, client, reconnectTimeout, sockets, timers,
                   drainTimers, inflight, nextId, bad, wire, failed, closes, sinceFail,
                   attemptsSinceFail, env, graylogTransport, currentConfig>>

\* ---- the return of testGraylogConnection, logger.ts:331-336 ----
\* The continuation of the `await` of a promise that resolve has settled.
TestReturn(i) ==
    /\ Running
    /\ i \in 1..Len(probes)
    /\ probes[i].promise \in {"true", "false"}
    /\ probes[i].order = 1
    /\ probes' = Continued(i, "returned")
    /\ call' = IF probes[i].promise = "true"
               THEN TestResult(TRUE, "sent", FALSE)
               ELSE TestResult(FALSE, "failed", FALSE)
    /\ last' = "test return"
    /\ UNCHANGED <<buffer, connected, client, reconnectTimeout, sockets, timers,
                   drainTimers, inflight, nextId, bad, wire, failed, closes, sinceFail,
                   attemptsSinceFail, env, graylogTransport, currentConfig>>

\* resolve(value) of the fallback's promise, logger.ts:317, 326: the probe of
\* call i after it.  The first call settles the promise, and the continuation
\* of the `await` then waits for its turn; a later call does nothing.
Resolve(i, value) ==
    IF probes[i].promise = "pending"
    THEN [probes[i] EXCEPT !.promise = IF value THEN "true" ELSE "false",
                           !.order = Cardinality(Awaiting) + 1]
    ELSE probes[i]

\* ---- the callback of the fallback's client.send, logger.ts:320-328 ----
ProbeSendCallback(i, err) ==
    /\ Running
    /\ i \in 1..Len(probes)
    /\ probes[i].callback
    /\ probes' = [probes EXCEPT ![i].callback = FALSE, ![i].success = ~err,
                                ![i].timer = 1000]
    /\ last' = "probe callback"
    /\ UNCHANGED <<buffer, connected, client, reconnectTimeout, sockets, timers,
                   drainTimers, inflight, nextId, bad, wire, failed, closes, sinceFail,
                   attemptsSinceFail, env, graylogTransport, currentConfig, call>>

\* ---- the 'error' listener of the fallback's socket, logger.ts:315-318 ----
\* A socket whose send threw has not begun to bind and emits nothing.
ProbeError(i) ==
    /\ Running
    /\ i \in 1..Len(probes)
    /\ probes[i].open
    /\ probes[i].promise \notin {"rejected", "caught"}
    /\ probes' = [probes EXCEPT ![i] = [Resolve(i, FALSE) EXCEPT !.open = FALSE]]
    /\ last' = "probe error"
    /\ UNCHANGED <<buffer, connected, client, reconnectTimeout, sockets, timers,
                   drainTimers, inflight, nextId, bad, wire, failed, closes, sinceFail,
                   attemptsSinceFail, env, graylogTransport, currentConfig, call>>

\* ---- the timer of the fallback fires, logger.ts:324-327 ----
\* client.close() on a socket the 'error' listener has closed throws, and
\* nothing catches it.
ProbeTimerFire(i) ==
    /\ Turn
    /\ i \in 1..Len(probes)
    /\ probes[i].timer = 0
    /\ probes' = IF probes[i].open
                 THEN [probes EXCEPT ![i] = [Resolve(i, probes[i].success)
                                                EXCEPT !.timer = -1, !.open = FALSE]]
                 ELSE [probes EXCEPT ![i].timer = -1, ![i].threw = TRUE]
    /\ last' = "probe timer"
    /\ UNCHANGED <<buffer, connected, client, reconnectTimeout, sockets, timers,
                   drainTimers, inflight, nextId, bad, wire, failed, closes, sinceFail,
                   attemptsSinceFail, env, graylogTransport, currentConfig, call>>

\* ---- safeLogger.configure(config), index.ts:6-8 and configureLogger ----
Configure(config) ==
    /\ Running
    /\ InTurn
    /\ CallsLeft
    /\ currentConfig' = Spread(defaultConfig, config)
    /\ call' = [NoCall EXCEPT !.op = "configure", !.n = call.n + 1]
    /\ last' = "configure"
    /\ UNCHANGED <<buffer, connected, client, reconnectTimeout, sockets, timers,
                   drainTimers, inflight, nextId, bad, wire, failed, closes, sinceFail,
                   attemptsSinceFail, env, graylogTransport, probes>>

\* safeLogger.isEnabled(), logger.ts:459
IsEnabled == env.enabled

\* the configurations given to configure
Configs ==
    {[graylogEnabled |-> TRUE, graylogHost |-> "graylog", graylogPort |-> "12201",
      logLevel |-> "debug"],
     [graylogEnabled |-> FALSE]}

\* ---- the state after the module's graylogTransport is set up, logger.ts:194-202 ----
NoTransport ==
    /\ buffer = <<>> /\ connected = FALSE /\ client = 0 /\ sockets = <<>>
    /\ reconnectTimeout = "undefined" /\ timers = <<>> /\ drainTimers = <<>>
    /\ inflight = <<>> /\ nextId = 1 /\ bad = {} /\ wire = <<>> /\ failed = 0
    /\ closes = 0 /\ sinceFail = ReconnectDelay /\ attemptsSinceFail = 0
    /\ last = "init"

\* The environments the module is loaded in: the complete one with every
\* GRAYLOG_LOG_LEVEL, and, at level "warn", those that have variables unset,
\* GRAYLOG_ENABLED set to "false" or GRAYLOG_PORT not a number, one such
\* value at a time.
Envs ==
    [enabled : {"true"}, host : {"graylog"}, port : {"12201"},
     logLevel : {"", "fatal", "error", "warn", "info", "debug"}]
    \cup {e \in [enabled : {"", "true", "false"}, host : {"", "graylog"},
                 port : {"", "12201", "abc"}, logLevel : {"warn"}] :
             Cardinality({v \in {e.enabled, e.host, e.port} :
                            v \in {"", "false", "abc"}}) <= 1}

InitFacade ==
    /\ env \in Envs
    /\ graylogTransport = HasTransport(env)
    /\ IF graylogTransport THEN InitOk \/ InitFailed ELSE NoTransport
    /\ currentConfig = defaultConfig
    /\ call = NoCall
    /\ probes = <<>>

NextFacade ==
    \/ \E consoleOk \in BOOLEAN : Startup(consoleOk)
    \/ \E L \in EntryPoints, ctx \in {<<>>, <<RequestContext>>}, message \in {Hello, Null},
          consoleOk \in BOOLEAN : Log(L, ctx, message, consoleOk)
    \/ \E createOk \in BOOLEAN : TestConnection(createOk)
    \/ \E i \in 1..Len(probes) : TestCatch(i)
    \/ \E i \in 1..Len(probes) : TestReturn(i)
    \/ \E i \in 1..Len(probes), err \in BOOLEAN : ProbeSendCallback(i, err)
    \/ \E i \in 1..Len(probes) : ProbeError(i)
    \/ \E i \in 1..Len(probes) : ProbeTimerFire(i)
    \/ \E config \in Configs : Configure(config)
    \/ Running /\ \E s \in 1..Len(sockets) : SocketError(s)
    \/ Running /\ \E s \in 1..Len(sockets) : BindComplete(s)
    \/ Running /\ \E r \in Range(Callable), err \in BOOLEAN : SendCallback(r, err)
    \/ Running /\ \E r \in Range(Callable) : SendAbandoned(r)
    \/ Turn /\ \E ok \in BOOLEAN : ReconnectFire(ok)
    \/ Running /\ graylogTransport /\ Close
    \/ Turn /\ Advance

SpecFacade == InitFacade /\ [][NextFacade]_vars

\* ---- the facade's entry points over the inputs of formatLog ----
\* The messages: strings, Errors, objects with any of four properties set to
\* "" or to a text, and null.  The context values: none, a request's, and one
\* that sets a required field.
MessageKeys == {"msg", "short_message", "host", "_correlation_id"}

Messages ==
    {[kind |-> "string", text |-> t] : t \in {"", "hello"}}
    \cup {[kind |-> "error", text |-> t] : t \in {"", "boom"}}
    \cup {[kind |-> "object", fields |-> f] :
            f \in UNION {[K -> {"", "v"}] : K \in SUBSET MessageKeys}}
    \cup {Null}

Contexts == {<<>>, <<RequestContext>>, <<[host |-> ""]>>}

\* forwarding enabled, every level passes the filter, the transport connected
InitFormat ==
    /\ InitOk
    /\ env = [enabled |-> "true", host |-> "graylog", port |-> "12201",
              logLevel |-> "debug"]
    /\ graylogTransport = TRUE
    /\ currentConfig = defaultConfig
    /\ call = NoCall
    /\ probes = <<>>

NextFormat ==
    \/ \E consoleOk \in BOOLEAN : Startup(consoleOk)
    \/ \E L \in EntryPoints, ctx \in Contexts, message \in Messages, consoleOk \in BOOLEAN :
          Log(L, ctx, message, consoleOk)

SpecFormat == InitFormat /\ [][NextFormat]_vars

\* ======================= the claims =======================

\* the send invocations made by processBuffer, in order
Drained(w) == SelectSeq(w, LAMBDA e : e.via = "drain")

\* how often record r was handed to client.send
SendCalls(r) == Cardinality({i \in 1..Len(wire) : wire[i].id = r})

\* the last min(k, maxBufferSize) of the records 1..k, in submission order
LastN(k) ==
    [i \in 1..Min(k, maxBufferSize) |-> k - Min(k, maxBufferSize) + i]

\* C1: in every reachable state the delivery queue holds at most
\* maxBufferSize (100) entries.
C1_QueueBounded == Len(buffer) <= maxBufferSize

\* a write found the queue full and evicted its oldest entry
C1_Witness == last = "write" /\ Len(buffer) = maxBufferSize /\ Head(buffer) > 1

\* C2: while the transport has never been connected, the queue holds exactly
\* the last min(k, maxBufferSize) of the k records submitted so far, in
\* submission order.
C2_KeepsLastRecords == sockets = <<>> => buffer = LastN(nextId - 1)

\* more than maxBufferSize records were submitted to a transport never connected
C2_Witness == sockets = <<>> /\ nextId - 1 > maxBufferSize /\ Len(buffer) = maxBufferSize

\* C3: a record whose send callback reported an error is not lost: it is
\* queued again (and, once retried, has been handed to the socket again).
C3_FailedRecordRequeued ==
    failed # 0 => (failed \in Range(buffer) \/ SendCalls(failed) >= 2)

\* C4 as claimed: every write() made while connected invokes client.send
\* exactly once for its record, and no record is handed to client.send twice.
C4_EveryRecordSentOnce ==
    /\ [][(last' = "write" /\ connected /\ client # 0)
            => wire' = Append(wire, [id |-> nextId, via |-> "write"])]_vars
    /\ [](\A r \in 1..(nextId - 1) : SendCalls(r) <= 1)

\* C4 as amended: every write() made while connected invokes client.send
\* exactly once for its record if JSON.stringify accepts the record and not
\* at all if it throws, and no record is handed to client.send twice.
C4_SerializableRecordSentOnce ==
    /\ [][(last' = "write" /\ connected /\ client # 0)
            => wire' = IF nextId \in bad'
                       THEN wire
                       ELSE Append(wire, [id |-> nextId, via |-> "write"])]_vars
    /\ [](\A r \in 1..(nextId - 1) : SendCalls(r) <= 1)

\* a transport connected since its construction has sent a record and has
\* skipped one that JSON.stringify threw on
C4_Witness ==
    /\ reconnectTimeout = "undefined"
    /\ closes = 0
    /\ \E r \in bad : SendCalls(r) = 0
    /\ \E r \in 1..(nextId - 1) : SendCalls(r) = 1

\* C5: a write() made while not connected, or while a reconnect timer is
\* live, invokes no send and appends the record to the queue; client.send is
\* only invoked while connected; and while a reconnect timer is live the
\* transport is not connected.
C5_QueuedWhileDisconnected ==
    /\ [][(last' = "write" /\ (~connected \/ timers # <<>>))
            => (wire' = wire /\ buffer' # <<>> /\ buffer'[Len(buffer')] = nextId)]_vars
    /\ [][wire' # wire => connected']_vars
    /\ [](timers # <<>> => ~connected)

\* a record submitted after the opening burst was queued while a reconnect
\* timer was live
C5_Witness ==
    /\ last = "write"
    /\ ~connected
    /\ timers # <<>>
    /\ nextId - 1 > Burst
    /\ buffer # <<>>
    /\ buffer[Len(buffer)] = nextId - 1

\* C6: the records processBuffer hands to the socket go out in submission
\* order; one step takes at most BatchSize (10) records from the queue and
\* sends at most BatchSize; and a step that leaves records queued sets a
\* fresh continuation timer for them.
C6_DrainInOrderInBatches ==
    /\ [](LET d == Drained(wire)
          IN \A i \in 1..(Len(d) - 1) : d[i].id < d[i + 1].id)
    /\ [][/\ Len(buffer) - Len(buffer') <= BatchSize
          /\ Len(wire') - Len(wire) <= BatchSize]_vars
    /\ [][(Len(buffer') < Len(buffer) /\ buffer' # <<>>)
            => (drainTimers' # <<>> /\ drainTimers'[Len(drainTimers')] = DrainDelay)]_vars

\* a continuation has sent the remainder of a queue longer than one batch
C6_Witness == last = "drain" /\ Len(Drained(wire)) > BatchSize /\ buffer = <<>>

\* C7: once close() has returned, no socket is opened and no batch is taken
\* from the queue.
C7_NoWorkAfterClose ==
    [][closes > 0 => (Len(sockets') = Len(sockets) /\ Len(buffer') >= Len(buffer))]_vars

\* C8: when close() returns the queue is empty.
C8_CloseDiscardsQueue == [][last' = "close" => buffer' = <<>>]_vars

\* C9: a second close() does not invoke the release (close) of a socket again.
C9_SecondCloseReleasesNothing ==
    [][(closes = 1 /\ last' = "close") => sockets' = sockets]_vars

\* the reconnect timer is due: ReconnectDelay has passed since it was set
Due == timers # <<>> /\ Head(timers) = 0

\* the safety part of C10: a reconnect timer calls setupConnection only when
\* ReconnectDelay (30 s) has passed since the last failure; at most one
\* reconnect timer is live, whatever failures came during the wait, and it
\* is due ReconnectDelay after the last of them; and the call by a timer
\* leaves no timer behind that would call again, unless the call itself
\* failed and set one.
OneTimer ==
    /\ [][last' = "reconnect" => sinceFail >= ReconnectDelay]_vars
    /\ [](Len(timers) <= 1)
    /\ [](timers # <<>> => timers[1] + sinceFail = ReconnectDelay)
    /\ [][last' = "reconnect"
            => timers' = IF connected' THEN <<>> ELSE <<ReconnectDelay>>]_vars

Ids(w) == [i \in 1..Len(w) |-> w[i].id]

\* a step in which client.send was invoked and threw
SendThrew ==
    /\ Len(wire') > Len(wire)
    /\ Len(inflight') - Len(inflight) < Len(wire') - Len(wire)

\* C11: a failed socket construction (the constructor's, or a reconnect
\* timer's) and a failed send (its callback is called with an error, or
\* client.send throws) leave the transport in the same condition: not
\* connected, with one reconnect timer live and due in ReconnectDelay; and
\* every call of write() returns without an exception.
C11_FailuresAlike ==
    /\ [][(\/ last' = "reconnect" /\ sockets' = sockets
           \/ failed' # failed
           \/ SendThrew)
            => (/\ ~connected'
                /\ timers' = <<ReconnectDelay>>
                /\ reconnectTimeout' = "live")]_vars
    /\ []((last = "init" /\ sockets = <<>>) => (~connected /\ timers = <<ReconnectDelay>>))
    /\ [][nextId' # nextId => last' = "write"]_vars

\* C12: a record JSON.stringify throws on is skipped and nothing else: a
\* write() of it while connected leaves the queue, the connection state and
\* the reconnect timer as they were and sends nothing; a step that takes a
\* batch from the queue sends the batch's other records, in order, leaves the
\* rest of the queue as it was, and (unless it is the reconnection itself)
\* leaves the connection state and the reconnect timer as they were.
C12_OnlyBadRecordSkipped ==
    /\ [][(last' = "write" /\ connected /\ client # 0 /\ nextId \in bad')
            => (/\ wire' = wire
                /\ buffer' = buffer
                /\ connected' = connected
                /\ timers' = timers
                /\ reconnectTimeout' = reconnectTimeout)]_vars
    /\ [][Len(buffer') < Len(buffer)
            => LET n == Len(buffer) - Len(buffer')
                   batch == SubSeq(buffer, 1, n)
               IN /\ buffer' = SubSeq(buffer, n + 1, Len(buffer))
                  /\ Len(wire') >= Len(wire)
                  /\ SubSeq(wire', 1, Len(wire)) = wire
                  /\ Ids(SubSeq(wire', Len(wire) + 1, Len(wire')))
                        = SelectSeq(batch, LAMBDA r : r \notin bad)
                  /\ last' = "drain"
                        => (/\ connected' = connected
                            /\ timers' = timers
                            /\ reconnectTimeout' = reconnectTimeout)]_vars

\* a continuation took a batch in which a record JSON.stringify throws on
\* came before another record, and that other record was the last one sent
C12_Witness ==
    /\ last = "drain"
    /\ wire # <<>>
    /\ wire[Len(wire)].via = "drain"
    /\ wire[Len(wire)].id - 1 \in bad
    /\ SendCalls(wire[Len(wire)].id - 1) = 0
    /\ wire[Len(wire)].id - 1 \notin Range(buffer)
    /\ Len(Drained(wire)) > BatchSize

\* forwarding is disabled by the environment: GRAYLOG_ENABLED is unset or
\* "false", or GRAYLOG_HOST or GRAYLOG_PORT is unset
Disabled(e) == e.enabled \in {"", "false"} \/ e.host = "" \/ e.port = ""

\* the step is a call of the facade's operation op
Called(op) == call'.op = op /\ call'.n = call.n + 1

\* the minimum severity the environment configures, info when unset
Minimum(e) == IF e.logLevel = "" THEN "info" ELSE e.logLevel

\* C13: while forwarding is disabled the transport allocates no socket, sends
\* nothing and queues nothing.
C13_DisabledIsNoOp ==
    Disabled(env) => (sockets = <<>> /\ wire = <<>> /\ buffer = <<>>)

\* C14: testGraylogConnection called with forwarding disabled returns
\* success = false with the detail "disabled" and opens no socket.
C14_TestWhenDisabled ==
    /\ [][(Called("test") /\ Disabled(env))
            => (/\ ~call'.success
                /\ call'.detail = "disabled"
                /\ Len(sockets') = Len(sockets))]_vars
    /\ [](Disabled(env) => \A i \in 1..Len(probes) : ~probes[i].socket)

\* C15: testGraylogConnection returns success = true only when the probe was
\* handed to a socket's send (the transport's, or the fallback's own) and that
\* send reported no error; a probe that is only queued gives success = false.
C15_TestSuccessMeansSent ==
    [][(Called("test") /\ call'.success)
         => (/\ buffer' = buffer
             /\ \/ wire' # wire
                \/ \E i \in PendingTests :
                      /\ probes[i].promise = "true"
                      /\ probes'[i].promise = "returned"
                      /\ probes[i].success)]_vars

\* C16: with a transport configured, a call of entry point L submits a record
\* to the transport if and only if LOG_LEVELS[L] <= LOG_LEVELS[minimum].
C16_SubmittedIffLevelPasses ==
    [][(Called("log") /\ graylogTransport)
         => (nextId' = nextId + 1
               <=> LOG_LEVELS[call'.level] <= LOG_LEVELS[Minimum(env)])]_vars

\* C17: a record that passed the filter and was formatted reaches both sinks
\* whatever the other does: when the console sink throws it is still
\* submitted to the transport, and the console sink is always called with it.
C17_SinksIsolated ==
    [][(Called("log") /\ call'.passed /\ call'.record # <<>>)
         => (/\ call'.console \in {"record", "fallback"}
             /\ graylogTransport => nextId' = nextId + 1)]_vars

\* C18: after configure(c) the logger works with c merged over the defaults:
\* isEnabled() is c's graylogEnabled, the transport's endpoint is c's host and
\* port, and the severity filter uses c's logLevel.
C18_ConfigureTakesEffect ==
    /\ [](call.op = "configure"
            => (/\ Truthy(IsEnabled) = currentConfig.graylogEnabled
                /\ currentConfig.graylogEnabled
                     => (/\ graylogTransport
                         /\ env.host = currentConfig.graylogHost
                         /\ PortString(env) = currentConfig.graylogPort)))
    /\ [][(Called("log") /\ currentConfig # defaultConfig)
            => (call'.passed
                  <=> LOG_LEVELS[call'.level] <= LOG_LEVELS[currentConfig.logLevel])]_vars

\* the required fields of a record are present and not empty
Required(r) ==
    /\ \A k \in {"version", "host", "short_message", "_correlation_id"} :
          k \in DOMAIN r /\ r[k] # ""
    /\ "level" \in DOMAIN r /\ r["level"] \in 0..7
    /\ "timestamp" \in DOMAIN r /\ r["timestamp"] > 0

\* C19: every record an entry point formats (formatLog, then the context
\* values merged over it) has its required fields present and not empty.
C19_RequiredFieldsPresent ==
    \A i \in 1..Len(call.record) : Required(call.record[i])

\* C20: whenever the transport is connected with records queued, and stays
\* connected, the queue becomes empty.
C20_QueueDrains == (connected /\ buffer # <<>>) ~> (buffer = <<>>)

\* a reconnection found the queue at its capacity and the continuations have
\* emptied it
C20_Witness ==
    /\ last = "drain"
    /\ connected
    /\ buffer = <<>>
    /\ Len(Drained(wire)) >= maxBufferSize - 1

\* the sockets the transport created and has not closed
OpenSockets == {s \in 1..Len(sockets) : sockets[s].state # "closed"}

\* C21: the transport has at most one open socket at any time, and when
\* close() returns none of its sockets is open.
C21_AtMostOneOpenSocket ==
    /\ Cardinality(OpenSockets) <= 1
    /\ last = "close" => OpenSockets = {}

\* C22: over the whole run the records are handed to client.send in
\* submission order.
C22_SentInSubmissionOrder ==
    \A i \in 1..(Len(wire) - 1) : wire[i].id < wire[i + 1].id

====
